---- MODULE Spec2Model ----
(***************************************************************************)
(* Rail Operations & Maintenance Optimizer (johncoudeadam/OpOpt_plan).     *)
(*                                                                         *)
(* solve_rail_optimization builds a CP-SAT model from an instance, asks    *)
(* the backend for an assignment and projects it into a schedule.  The     *)
(* backend is modelled as a search that decides the variables of one       *)
(* vehicle and one shift per step and keeps a partial assignment only if   *)
(* every constraint the builder emitted over decided variables holds, so   *)
(* the complete assignments it reaches are exactly the solutions of the    *)
(* emitted model.                                                          *)
(*                                                                         *)
(* Variables of a maintenance instance that is not performed (its depot,   *)
(* km at start, deviation helpers) occur in the emitted model only under   *)
(* OnlyEnforceIf(maint_performed) and are never read by the projection;    *)
(* the state keeps them for performed instances only.                      *)
(***************************************************************************)
EXTENDS Integers, Sequences, FiniteSets, TLC

VARIABLES
    data,                \* the instance: vehicles, locations, maintenance_types, routes
    pc,                  \* "input" | "generated" | "solving" | "returned" | "raised" | "idle"
    cur_shift,           \* search position: index into all_shifts_with_initial
    cur_vehicle,         \* search position: index into data.vehicles
    assign_vr,           \* set of <<vehicle_id, route_id>> whose literal is 1
    loc_start_vs,        \* [vehicle_id -> [decided shift index -> location index]]
    km_at_shift_start,   \* [vehicle_id -> [decided shift index -> km]]
    maint_performed,     \* set of maintenance instances whose literal is 1
    maint_assigned_depot,\* [performed instance -> depot index]
    km_at_maint_start,   \* [performed instance -> km]
    maint_active_s,      \* set of <<instance, shift index>> whose literal is 1
    deviation,           \* [performed preventive instance -> deviation_var]
    results,             \* what solve_rail_optimization returned
    results_file,        \* the content of output/schedule_results.json
    request,             \* parameters of the POST /run_optimizer being handled
    responses            \* the HTTP responses of /run_optimizer, oldest first

vars == <<data, pc, cur_shift, cur_vehicle, assign_vr, loc_start_vs,
          km_at_shift_start, maint_performed, maint_assigned_depot,
          km_at_maint_start, maint_active_s, deviation, results,
          results_file, request, responses>>

web_vars == <<request, responses>>

solver_vars == <<assign_vr, loc_start_vs, km_at_shift_start, maint_performed,
                 maint_assigned_depot, km_at_maint_start, maint_active_s, deviation>>

(***************************************************************************)
(* Bounds of the instances explored.                                       *)
(***************************************************************************)
MaxInitialKm == 1

MaxRemainingKm == 2

MaxCapacity == 2

MaxRequests == 2

(***************************************************************************)
(* Generic helpers.                                                        *)
(***************************************************************************)
Max(S) == CHOOSE x \in S : \A y \in S : y <= x

Min2(a, b) == IF a <= b THEN a ELSE b

Max2(a, b) == IF a >= b THEN a ELSE b

RECURSIVE SumSet(_, _)
SumSet(S, f) ==
    IF S = {} THEN 0
    ELSE LET x == CHOOSE y \in S : TRUE
         IN  f[x] + SumSet(S \ {x}, f)

None == "None"

(***************************************************************************)
(* The builder's view of the instance (optimizer.py, lines 20-116).        *)
(* Python dicts and lists are sequences in insertion order; a Python index *)
(* i is position i + 1 of the sequence.                                    *)
(***************************************************************************)
max_maint_duration == 5

HoursPerShift == 8

VehicleIds(d) == {d.vehicles[i].id : i \in DOMAIN d.vehicles}

VehicleById(d, v) == d.vehicles[CHOOSE i \in DOMAIN d.vehicles : d.vehicles[i].id = v]

RouteById(d, r) == d.routes[CHOOSE i \in DOMAIN d.routes : d.routes[i].id = r]

planning_days(d) == Max({d.routes[i].day : i \in DOMAIN d.routes})

all_shifts_with_initial(d) ==
    [idx \in 0..(2 * planning_days(d)) |->
        IF idx = 0 THEN [day |-> 0, shift |-> "initial"]
        ELSE [day |-> (idx + 1) \div 2,
              shift |-> IF idx % 2 = 1 THEN "day" ELSE "night"]]

NumShifts(d) == 2 * planning_days(d) + 1

\* ids of the routes of routes_by_day_shift[all_shifts_with_initial[idx]]
routes_by_day_shift(d, idx) ==
    {d.routes[i].id : i \in
        {j \in DOMAIN d.routes :
            /\ d.routes[j].day = all_shifts_with_initial(d)[idx].day
            /\ d.routes[j].shift = all_shifts_with_initial(d)[idx].shift}}

location_id_to_index(d, loc_id) ==
    (CHOOSE i \in DOMAIN d.locations : d.locations[i].id = loc_id) - 1

index_to_location_id(d, idx) == d.locations[idx + 1].id

LocationIndices(d) == 0..(Len(d.locations) - 1)

depot_indices(d) ==
    {i - 1 : i \in {j \in DOMAIN d.locations : d.locations[j].type = "depot"}}

max_possible_km(d) ==
    Max({d.vehicles[i].initial_km : i \in DOMAIN d.vehicles})
    + SumSet(DOMAIN d.routes, [i \in DOMAIN d.routes |-> d.routes[i].distance_km])

\* next(mt for mt in maintenance_types if mt["id"] == maint_id)
MaintTypeById(d, maint_id) ==
    d.maintenance_types[
        CHOOSE i \in DOMAIN d.maintenance_types :
            /\ d.maintenance_types[i].id = maint_id
            /\ \A j \in 1..(i - 1) : d.maintenance_types[j].id # maint_id]

\* one potential instance per vehicle, catalogue entry and start shift >= 1
all_maint_instances(d) ==
    {[vehicle_id |-> v, maint_id |-> d.maintenance_types[t].id, start_idx |-> s] :
        v \in VehicleIds(d), t \in DOMAIN d.maintenance_types,
        s \in 1..(NumShifts(d) - 1)}

\* min(max(1, required_manhours // 8), max_maint_duration)
est_duration(required_manhours) ==
    Min2(Max2(1, required_manhours \div HoursPerShift), max_maint_duration)

InstanceDuration(d, m) == est_duration(MaintTypeById(d, m.maint_id).manhours)

\* int(required_manhours / est_duration)
manhours_per_shift(d, m) ==
    MaintTypeById(d, m.maint_id).manhours \div InstanceDuration(d, m)

\* (instance_id, s_idx) is a key of maint_active_s
ActiveKey(d, m, s_idx) ==
    /\ m.start_idx <= s_idx
    /\ s_idx < Min2(m.start_idx + InstanceDuration(d, m), NumShifts(d))

\* capable_depot_indices without the restriction to the depots that declare
\* the specialization
capable_depot_indices_AllDepots(d, m) == depot_indices(d)

\* the domain of maint_assigned_depot[instance_id]
capable_depot_indices(d, m) ==
    LET specialization == MaintTypeById(d, m.maint_id).specialization
        capable == {i - 1 : i \in {j \in DOMAIN d.locations :
                        /\ d.locations[j].type = "depot"
                        /\ specialization \in d.locations[j].specialized_maintenance}}
    IN  IF specialization # None /\ capable # {} THEN capable ELSE depot_indices(d)

\* the first pending corrective task of the vehicle with this type (the loop breaks on it)
FirstPendingCorrective(veh, maint_id) ==
    LET hits == {i \in DOMAIN veh.pending_corrective_tasks :
                    veh.pending_corrective_tasks[i].maintenance_type_id = maint_id}
    IN  IF hits = {} THEN 0 ELSE CHOOSE i \in hits : \A j \in hits : i <= j

(***************************************************************************)
(* The constraints the builder emits, each stated over the values the      *)
(* search has decided.  v is a vehicle id, s the shift index being         *)
(* decided, l and k the candidate location index and km of v at s, rs the  *)
(* routes of shift s assigned to v, ps the instances of v starting at s    *)
(* that are performed, acts the instances of v active in s.                *)
(***************************************************************************)

\* C3 (351-358): loc_start_vs[v, 0] == initial_location_index
InitialLocationPinned(d, veh, s, l) ==
    s = 0 => l = location_id_to_index(d, veh.initial_location)

\* 511-516: km_at_shift_start[v, 0] == initial_km
InitialKmPinned(veh, s, k) ==
    s = 0 => k = veh.initial_km

\* VehicleUniqueness without the bound on the routes of one shift
VehicleUniqueness_Unbounded(rs) == Cardinality(rs) >= 0

\* C2 (302-315): at most one route per vehicle and shift
VehicleUniqueness(rs) == Cardinality(rs) <= 1

\* C4 (392-394): an assigned route starts where the vehicle is
RouteStartBinds(d, rs, l) ==
    \A r \in rs : l = location_id_to_index(d, RouteById(d, r).start_location)

\* the routes of shift c assigned to v
AssignedAt(d, v, c) == {r \in routes_by_day_shift(d, c) : <<v, r>> \in assign_vr}

\* RouteEndBinds without the constraint on the location after the route
RouteEndBinds_Unbound(d, v, s, l) == l \in LocationIndices(d)

\* C4 (396-398, 470-476): the route of shift s - 1 ends where the vehicle is at s.
\* The loop over all_shifts starts at shift index 1, so the first transition
\* constrained is 1 -> 2.
RouteEndBinds(d, v, s, l) ==
    s >= 2 =>
        \A r \in AssignedAt(d, v, s - 1) :
            l = location_id_to_index(d, RouteById(d, r).end_location)

\* 276-285, 411-414: an instance whose literal of shift s - 1 is in active
\* keeps the vehicle in place
MaintenanceStationaryUnder(d, v, s, l, active) ==
    s >= 2 =>
        \A m \in all_maint_instances(d) :
            (m.vehicle_id = v /\ <<m, s - 1>> \in active)
                => l = loc_start_vs[v][s - 1]

\* the same, for the literals decided so far
MaintenanceStationary(d, v, s, l) ==
    MaintenanceStationaryUnder(d, v, s, l, maint_active_s)

\* 402-409: the Python flag, true as soon as some maint_active_s key exists
\* for this vehicle and shift
maint_active_in_shift(d, v, c) ==
    \E m \in all_maint_instances(d) : m.vehicle_id = v /\ ActiveKey(d, m, c)

\* 416-433: idle_lit <=> no route of the shift is assigned; the continuity
\* constraint is emitted only if not maint_active_in_shift
IdleContinuity(d, v, s, l) ==
    (/\ s >= 2
     /\ routes_by_day_shift(d, s - 1) # {}
     /\ ~maint_active_in_shift(d, v, s - 1)
     /\ AssignedAt(d, v, s - 1) = {})
        => l = loc_start_vs[v][s - 1]

\* 435-453: night_lit == 1 and the location carries over to the next day shift
NightContinuity(d, v, s, l) ==
    (s >= 2 /\ all_shifts_with_initial(d)[s - 1].shift = "night")
        => l = loc_start_vs[v][s - 1]

\* 455-483: a day shift without routes and without maintenance keys
DayToNightContinuity(d, v, s, l) ==
    (/\ s >= 2
     /\ all_shifts_with_initial(d)[s - 1].shift = "day"
     /\ routes_by_day_shift(d, s - 1) = {}
     /\ ~maint_active_in_shift(d, v, s - 1))
        => l = loc_start_vs[v][s - 1]

\* KmAccumulation with the route terms left out of the sum
KmAccumulation_NoRouteTerms(d, v, s, k) ==
    s >= 2 => k = km_at_shift_start[v][s - 1]

\* C6 (577-612): km accumulation; the loop skips the initial state, so the
\* first step constrained is 1 -> 2
KmAccumulation(d, v, s, k) ==
    s >= 2 =>
        k = km_at_shift_start[v][s - 1]
            + SumSet(AssignedAt(d, v, s - 1),
                     [r \in AssignedAt(d, v, s - 1) |-> RouteById(d, r).distance_km])

\* 271-274: maint_active_s => maint_performed
ActiveImpliesPerformed(acts, ps) == acts \subseteq (maint_performed \cup ps)

\* C12 (317-349): in a day shift with routes, not (route assigned and instance active)
RouteMaintenanceExclusive(d, s, rs, acts) ==
    (/\ all_shifts_with_initial(d)[s].shift # "night"
     /\ routes_by_day_shift(d, s) # {})
        => (rs = {} \/ acts = {})

\* 287-290 with the domain of maint_assigned_depot (152-177): a performed
\* instance starts at its assigned depot, which is a value of the domain
PerformedAtAssignedDepot(d, ps, l) ==
    \A m \in ps : l \in capable_depot_indices(d, m)

\* PreventiveMaxKm bounding by the domain of the km variable instead of max_km
PreventiveMaxKm_DomainOnly(d, ps, k) ==
    \A m \in ps : k <= max_possible_km(d)

\* C7 (190-199): preventive, km_at_maint_start <= max_km
PreventiveMaxKm(d, ps, k) ==
    \A m \in ps :
        MaintTypeById(d, m.maint_id).type = "preventive"
            => k <= MaintTypeById(d, m.maint_id).max_km

\* 224-243: corrective, km_at_maint_start <= initial_km + remaining_km of the
\* first pending task of that type
CorrectiveMaxKm(d, veh, ps, k) ==
    \A m \in ps :
        (/\ MaintTypeById(d, m.maint_id).type = "corrective"
         /\ FirstPendingCorrective(veh, m.maint_id) # 0)
            => k <= veh.initial_km
                    + veh.pending_corrective_tasks[
                          FirstPendingCorrective(veh, m.maint_id)].remaining_km

\* DeviationLinearized without the equation that links the helper variables
\* to km_at_maint_start
DeviationLinearized_Unlinked(d, m, k, dev) ==
    \E pos_diff \in 0..max_possible_km(d), neg_diff \in 0..max_possible_km(d) :
        dev = pos_diff + neg_diff

\* 201-220: deviation_var == pos_diff + neg_diff and
\* km_at_maint_start - optimal_km == pos_diff - neg_diff, all in 0..max_possible_km
DeviationLinearized(d, m, k, dev) ==
    \E pos_diff \in 0..max_possible_km(d), neg_diff \in 0..max_possible_km(d) :
        /\ k - MaintTypeById(d, m.maint_id).optimal_km = pos_diff - neg_diff
        /\ dev = pos_diff + neg_diff

\* C11 (537-575): a route of the previous day shift assigned to the vehicle
\* ends at the depot of an instance performed at s
RoutingToDepot(d, v, s, ps, l) ==
    \A m \in ps :
        (s > 1 /\ all_shifts_with_initial(d)[s - 1].shift = "day")
            => \A r \in AssignedAt(d, v, s - 1) :
                   location_id_to_index(d, RouteById(d, r).end_location) = l

\* RouteCoverage with >= 1 in place of == 1
RouteCoverage_AtLeastOne(d, r, assigned) ==
    Cardinality({v \in VehicleIds(d) : <<v, r>> \in assigned}) >= 1

\* C1 (294-300): every route is assigned to exactly one vehicle
RouteCoverage(d, r, assigned) ==
    Cardinality({v \in VehicleIds(d) : <<v, r>> \in assigned}) = 1

\* LocationCapacity with the loop running over all_shifts, without the initial state
LocationCapacity_SkipInitial(d, s, loc) ==
    s >= 1 =>
        \A i \in DOMAIN d.locations :
            Cardinality({v \in VehicleIds(d) : loc[v][s] = i - 1}) <= d.locations[i].capacity

\* C5 (485-507): vehicles at a location in shift s <= capacity
LocationCapacity(d, s, loc) ==
    \A i \in DOMAIN d.locations :
        Cardinality({v \in VehicleIds(d) : loc[v][s] = i - 1}) <= d.locations[i].capacity

\* 659-680: the demand of depot loc_index in shift s
DepotDemand(d, loc_index, s, active, depot) ==
    LET here == {m \in all_maint_instances(d) :
                    /\ <<m, s>> \in active
                    /\ depot[m] = loc_index}
    IN  SumSet(here, [m \in here |-> manhours_per_shift(d, m)])

\* ManhourCapacity with one constraint per demand variable instead of their sum
ManhourCapacity_PerDemand(d, s, active, depot) ==
    s >= 1 =>
        \A i \in DOMAIN d.locations :
            d.locations[i].type = "depot"
                => \A m \in all_maint_instances(d) :
                       (<<m, s>> \in active /\ depot[m] = i - 1)
                           => manhours_per_shift(d, m) <= d.locations[i].manhours_per_shift

\* C9/C10 (682-698): demand <= manhours_per_shift of the depot, shifts >= 1
ManhourCapacity(d, s, active, depot) ==
    s >= 1 =>
        \A i \in DOMAIN d.locations :
            d.locations[i].type = "depot"
                => DepotDemand(d, i - 1, s, active, depot) <= d.locations[i].manhours_per_shift

\* CorrectiveForced with sum(...) >= 0 in place of >= 1
CorrectiveForced_SumGeqZero(d, veh, performed) ==
    \A i \in DOMAIN veh.pending_corrective_tasks :
        Cardinality({m \in performed :
            /\ m.vehicle_id = veh.id
            /\ m.maint_id = veh.pending_corrective_tasks[i].maintenance_type_id}) >= 0

\* CorrectiveForced reading pending_preventive_tasks as well
CorrectiveForced_BothLists(d, veh, performed) ==
    LET named == {veh.pending_corrective_tasks[i].maintenance_type_id :
                     i \in DOMAIN veh.pending_corrective_tasks}
                 \cup (IF "pending_preventive_tasks" \in DOMAIN veh
                        THEN {veh.pending_preventive_tasks[i].maintenance_type_id :
                                 i \in DOMAIN veh.pending_preventive_tasks}
                        ELSE {})
    IN  \A t \in named :
            LET task_instances ==
                    {m \in all_maint_instances(d) :
                        m.vehicle_id = veh.id /\ m.maint_id = t}
            IN  task_instances # {} => (task_instances \cap performed) # {}

\* C8 (518-535, 700-721): for each pending corrective task, at least one
\* instance of that vehicle and type is performed, if any instance exists
CorrectiveForced(d, veh, performed) ==
    \A i \in DOMAIN veh.pending_corrective_tasks :
        LET task_instances ==
                {m \in all_maint_instances(d) :
                    /\ m.vehicle_id = veh.id
                    /\ m.maint_id = veh.pending_corrective_tasks[i].maintenance_type_id}
        IN  task_instances # {} => (task_instances \cap performed) # {}

(***************************************************************************)
(* The solution projector (optimizer.py, lines 744-896).                   *)
(***************************************************************************)
NoRoute == [route_id |-> None, start_location |-> None, end_location |-> None,
            distance_km |-> 0]

NoObjective == -1

\* f"{day}_{shift}"
ShiftKey(d, idx) ==
    <<all_shifts_with_initial(d)[idx].day, all_shifts_with_initial(d)[idx].shift>>

RealShiftIndices(d) == 1..(NumShifts(d) - 1)

IndexOfShiftKey(d, key) == CHOOSE idx \in RealShiftIndices(d) : ShiftKey(d, idx) = key

\* 749-778: the first route of the shift whose literal is 1, else None
ProjectRoute(d, v, idx) ==
    LET hits == {i \in DOMAIN d.routes :
                    /\ d.routes[i].id \in routes_by_day_shift(d, idx)
                    /\ <<v, d.routes[i].id>> \in assign_vr}
    IN  IF hits = {} THEN NoRoute
        ELSE LET r == d.routes[CHOOSE i \in hits : \A j \in hits : i <= j]
             IN  [route_id |-> r.id, start_location |-> r.start_location,
                  end_location |-> r.end_location, distance_km |-> r.distance_km]

\* 780-822: one record per performed instance
ProjectMaintenance(d, v) ==
    {LET end_idx == Min2(m.start_idx + InstanceDuration(d, m), NumShifts(d) - 1)
     IN  [maintenance_id |-> m.maint_id,
          maintenance_type |-> MaintTypeById(d, m.maint_id).type,
          start_day |-> all_shifts_with_initial(d)[m.start_idx].day,
          start_shift |-> all_shifts_with_initial(d)[m.start_idx].shift,
          end_day |-> all_shifts_with_initial(d)[end_idx].day,
          end_shift |-> all_shifts_with_initial(d)[end_idx].shift,
          depot |-> index_to_location_id(d, maint_assigned_depot[m]),
          km_at_start |-> km_at_maint_start[m],
          required_manhours |-> MaintTypeById(d, m.maint_id).manhours]
     : m \in {x \in maint_performed : x.vehicle_id = v}}

\* Python's order on the strings "day" and "night"
ShiftStrLeq(a, b) == a = "day" \/ b = "night"

\* 848-861: the shift lies between the start and the end of the record, both included
InMaintenancePeriod(sh, maint) ==
    /\ \/ sh.day > maint.start_day
       \/ (sh.day = maint.start_day /\ ShiftStrLeq(maint.start_shift, sh.shift))
    /\ \/ sh.day < maint.end_day
       \/ (sh.day = maint.end_day /\ ShiftStrLeq(sh.shift, maint.end_shift))

\* 824-869
ProjectState(d, v, idx) ==
    LET under == \E maint \in ProjectMaintenance(d, v) :
                    InMaintenancePeriod(all_shifts_with_initial(d)[idx], maint)
    IN  [location |-> index_to_location_id(d, loc_start_vs[v][idx]),
         km |-> km_at_shift_start[v][idx],
         is_idle |-> (ProjectRoute(d, v, idx) = NoRoute /\ ~under),
         is_under_maintenance |-> under]

\* solver.ObjectiveValue(): the sum of the deviation variables
ObjectiveValue == SumSet(DOMAIN deviation, deviation)

\* 871-893
ScheduleResults(d, status) ==
    [optimization_info |->
        [status |-> status,
         objective_value |-> IF status = "OPTIMAL" THEN ObjectiveValue ELSE NoObjective],
     vehicles |->
        [v \in VehicleIds(d) |->
            [initial_state |-> [location |-> VehicleById(d, v).initial_location,
                                km |-> VehicleById(d, v).initial_km],
             route_assignments |->
                [key \in {ShiftKey(d, i) : i \in RealShiftIndices(d)} |->
                    ProjectRoute(d, v, IndexOfShiftKey(d, key))],
             maintenance_activities |-> ProjectMaintenance(d, v),
             states |->
                [key \in {ShiftKey(d, i) : i \in RealShiftIndices(d)} |->
                    ProjectState(d, v, IndexOfShiftKey(d, key))]]]]

(***************************************************************************)
(* JSON files.  json.dump writes Python's None as null and json.load reads *)
(* null back as None; strings, integers, booleans, lists and dicts with    *)
(* string keys are written and read back unchanged.                        *)
(***************************************************************************)
\* the JSON literal null, told apart from every objective value (all >= 0)
JsonNull == -2

\* os.path.exists(results_file) is False
NoFile == [absent |-> TRUE]

\* json.dump of a dict that may carry a schedule, at top level or under
\* "schedule_results"
RECURSIVE JsonDump(_)
JsonDump(x) ==
    [k \in DOMAIN x |->
        IF k = "optimization_info"
        THEN [x[k] EXCEPT !.objective_value = IF @ = NoObjective THEN JsonNull ELSE @]
        ELSE IF k = "schedule_results" THEN JsonDump(x[k])
        ELSE x[k]]

\* json.load of what JsonDump wrote
RECURSIVE JsonLoad(_)
JsonLoad(x) ==
    [k \in DOMAIN x |->
        IF k = "optimization_info"
        THEN [x[k] EXCEPT !.objective_value = IF @ = JsonNull THEN NoObjective ELSE @]
        ELSE IF k = "schedule_results" THEN JsonLoad(x[k])
        ELSE x[k]]

(***************************************************************************)
(* Instance validation (data_generator.py, lines 260-295).                 *)
(***************************************************************************)
LocationIdSet(d) == {d.locations[i].id : i \in DOMAIN d.locations}

MaintenanceTypeIds(d) == {d.maintenance_types[i].id : i \in DOMAIN d.maintenance_types}

\* TRUE iff _validate_data returns without raising ValueError
ValidateData(d) ==
    /\ \A i \in DOMAIN d.vehicles : d.vehicles[i].initial_location \in LocationIdSet(d)
    /\ \A i \in DOMAIN d.routes :
        /\ d.routes[i].start_location \in LocationIdSet(d)
        /\ d.routes[i].end_location \in LocationIdSet(d)
    /\ \A i \in DOMAIN d.vehicles :
        \A j \in DOMAIN d.vehicles[i].pending_corrective_tasks :
            d.vehicles[i].pending_corrective_tasks[j].maintenance_type_id
                \in MaintenanceTypeIds(d)
    /\ \A i \in DOMAIN d.maintenance_types :
        d.maintenance_types[i].specialization # None
            => \E j \in DOMAIN d.locations :
                /\ d.locations[j].type = "depot"
                /\ d.maintenance_types[i].specialization
                       \in d.locations[j].specialized_maintenance

(***************************************************************************)
(* The search of the backend over the emitted model.                       *)
(***************************************************************************)
Extend(f, s, x) == [i \in 0..s |-> IF i = s THEN x ELSE f[i]]

InstancesStartingAt(d, v, s) ==
    {m \in all_maint_instances(d) : m.vehicle_id = v /\ m.start_idx = s}

InstancesKeyedAt(d, v, s) ==
    {m \in all_maint_instances(d) : m.vehicle_id = v /\ ActiveKey(d, m, s)}

PreventiveAmong(d, ps) ==
    {m \in ps : MaintTypeById(d, m.maint_id).type = "preventive"}

\* every emitted constraint over the variables of one vehicle up to shift s
VehicleShiftConstraints(d, veh, s, l, k, rs, ps, acts) ==
    /\ InitialLocationPinned(d, veh, s, l)
    /\ InitialKmPinned(veh, s, k)
    /\ VehicleUniqueness(rs)
    /\ RouteStartBinds(d, rs, l)
    /\ RouteEndBinds(d, veh.id, s, l)
    /\ KmAccumulation(d, veh.id, s, k)
    /\ NightContinuity(d, veh.id, s, l)
    /\ DayToNightContinuity(d, veh.id, s, l)
    /\ IdleContinuity(d, veh.id, s, l)
    /\ MaintenanceStationary(d, veh.id, s, l)
    /\ PerformedAtAssignedDepot(d, ps, l)
    /\ PreventiveMaxKm(d, ps, k)
    /\ CorrectiveMaxKm(d, veh, ps, k)
    /\ RoutingToDepot(d, veh.id, s, ps, l)
    /\ ActiveImpliesPerformed(acts, ps)
    /\ RouteMaintenanceExclusive(d, s, rs, acts)

\* every emitted constraint that couples the vehicles in shift s
FleetShiftConstraints(d, s, assigned, loc, active, depot) ==
    /\ \A r \in routes_by_day_shift(d, s) : RouteCoverage(d, r, assigned)
    /\ LocationCapacity(d, s, loc)
    /\ ManhourCapacity(d, s, active, depot)

\* SolutionStatus reporting an incumbent with a positive objective as UNKNOWN
SolutionStatus_IncumbentUnknown(d, objective) ==
    IF objective = 0 THEN "OPTIMAL" ELSE "UNKNOWN"

\* CP-SAT status of a returned assignment: with no objective, or with the
\* objective at its lower bound 0, the assignment is proven optimal; otherwise
\* it is an incumbent returned at the time limit.  The minimum of the
\* objective is 0 for every satisfiable instance in which no preventive type
\* is named by a pending corrective task: clearing maint_performed and the
\* maint_active_s literals of every preventive instance of a solution leaves
\* a solution (both occur in the other constraints only as enforcement
\* literals) whose deviation variables are all 0.
SolutionStatus(d, objective) ==
    IF objective = 0 THEN "OPTIMAL" ELSE "FEASIBLE"

NoResults == [status |-> "NOT_RUN"]

EmptyFn == [x \in {} |-> 0]

NoRequest == [regenerate |-> FALSE, use_cached |-> FALSE, active |-> FALSE]

\* generate_dummy_data: the instance is validated before it is handed out
GenerateDummyData ==
    /\ pc = "input"
    /\ pc' = IF ValidateData(data) THEN "generated" ELSE "raised"
    /\ UNCHANGED <<data, cur_shift, cur_vehicle, solver_vars, results,
                   results_file, web_vars>>

\* solve_rail_optimization, up to solver.Solve(model); max() of no routes raises
SolveRailOptimization ==
    /\ pc \in {"input", "generated"}
    /\ pc' = IF data.routes = <<>> THEN "raised" ELSE "solving"
    /\ UNCHANGED <<data, cur_shift, cur_vehicle, solver_vars, results,
                   results_file, web_vars>>

\* one step of the search: the variables of one vehicle in one shift
SearchStep ==
    /\ pc = "solving"
    /\ cur_shift < NumShifts(data)
    /\ LET veh == data.vehicles[cur_vehicle]
           v == veh.id
           s == cur_shift
           last_vehicle == cur_vehicle = Len(data.vehicles)
       IN  \E l \in LocationIndices(data), k \in 0..max_possible_km(data),
              rs \in SUBSET routes_by_day_shift(data, s),
              ps \in SUBSET InstancesStartingAt(data, v, s),
              acts \in SUBSET InstancesKeyedAt(data, v, s) :
            /\ VehicleShiftConstraints(data, veh, s, l, k, rs, ps, acts)
            /\ \E dev \in [PreventiveAmong(data, ps) -> 0..max_possible_km(data)] :
                /\ \A m \in DOMAIN dev : DeviationLinearized(data, m, k, dev[m])
                /\ assign_vr' = assign_vr \cup {<<v, r>> : r \in rs}
                /\ loc_start_vs' = [loc_start_vs EXCEPT ![v] = Extend(@, s, l)]
                /\ km_at_shift_start' = [km_at_shift_start EXCEPT ![v] = Extend(@, s, k)]
                /\ maint_performed' = maint_performed \cup ps
                /\ maint_assigned_depot' =
                       [m \in maint_performed \cup ps |->
                           IF m \in ps THEN l ELSE maint_assigned_depot[m]]
                /\ km_at_maint_start' =
                       [m \in maint_performed \cup ps |->
                           IF m \in ps THEN k ELSE km_at_maint_start[m]]
                /\ maint_active_s' = maint_active_s \cup {<<m, s>> : m \in acts}
                /\ deviation' =
                       [m \in DOMAIN deviation \cup DOMAIN dev |->
                           IF m \in DOMAIN dev THEN dev[m] ELSE deviation[m]]
            /\ last_vehicle =>
                   FleetShiftConstraints(data, s, assign_vr', loc_start_vs',
                                         maint_active_s', maint_assigned_depot')
            /\ (s = NumShifts(data) - 1) => CorrectiveForced(data, veh, maint_performed')
            /\ cur_vehicle' = IF last_vehicle THEN 1 ELSE cur_vehicle + 1
            /\ cur_shift' = IF last_vehicle THEN s + 1 ELSE s
    /\ UNCHANGED <<data, pc, results, results_file, web_vars>>

\* solver.Solve returns an assignment; 737-909: the results dict, the
\* schedule, and the schedule written to output/schedule_results.json
SolverReturns ==
    /\ pc = "solving"
    /\ cur_shift = NumShifts(data)
    /\ pc' = "returned"
    /\ results' =
         [status |-> SolutionStatus(data, ObjectiveValue),
          schedule_results |->
              ScheduleResults(data, SolutionStatus(data, ObjectiveValue))]
    /\ results_file' = JsonDump(results'.schedule_results)
    /\ UNCHANGED <<data, cur_shift, cur_vehicle, solver_vars, web_vars>>

\* max_time_in_seconds elapses before any assignment is found: UNKNOWN, no schedule
SolverTimeout ==
    /\ pc = "solving"
    /\ cur_shift < NumShifts(data)
    /\ pc' = "returned"
    /\ results' = [status |-> "UNKNOWN"]
    /\ cur_shift' = 0
    /\ cur_vehicle' = 1
    /\ assign_vr' = {}
    /\ loc_start_vs' = [v \in VehicleIds(data) |-> EmptyFn]
    /\ km_at_shift_start' = [v \in VehicleIds(data) |-> EmptyFn]
    /\ maint_performed' = {}
    /\ maint_assigned_depot' = EmptyFn
    /\ km_at_maint_start' = EmptyFn
    /\ maint_active_s' = {}
    /\ deviation' = EmptyFn
    /\ UNCHANGED <<data, results_file, web_vars>>

Next ==
    \/ GenerateDummyData
    \/ SolveRailOptimization
    \/ SearchStep
    \/ SolverReturns
    \/ SolverTimeout

(***************************************************************************)
(* Instances.                                                              *)
(***************************************************************************)
Depot(id, capacity, manhours, specs) ==
    [id |-> id, type |-> "depot", capacity |-> capacity,
     manhours_per_shift |-> manhours, specialized_maintenance |-> specs]

Parking(id, capacity) ==
    [id |-> id, type |-> "parking", capacity |-> capacity,
     manhours_per_shift |-> 0, specialized_maintenance |-> {}]

Corrective(id, manhours, specialization) ==
    [id |-> id, type |-> "corrective", manhours |-> manhours,
     specialization |-> specialization, optimal_km |-> 0, max_km |-> 0]

Preventive(id, manhours, specialization, optimal_km, max_km) ==
    [id |-> id, type |-> "preventive", manhours |-> manhours,
     specialization |-> specialization, optimal_km |-> optimal_km, max_km |-> max_km]

Task(maint_id, remaining_km) ==
    [maintenance_type_id |-> maint_id, remaining_km |-> remaining_km]

Vehicle(id, initial_location, initial_km, corrective_tasks) ==
    [id |-> id, initial_location |-> initial_location, initial_km |-> initial_km,
     pending_corrective_tasks |-> corrective_tasks]

Route(id, day, shift, start_location, end_location, distance_km) ==
    [id |-> id, day |-> day, shift |-> shift, start_location |-> start_location,
     end_location |-> end_location, distance_km |-> distance_km]

\* pending corrective task lists: none, one, and two tasks of the same type
\* with different remaining_km (the generator draws the type with replacement)
TaskLists ==
    {<<>>,
     <<Task("corrective_1", MaxRemainingKm)>>,
     <<Task("corrective_1", MaxRemainingKm), Task("corrective_1", 0)>>,
     <<Task("corrective_1", 0), Task("corrective_1", MaxRemainingKm)>>}

FleetLocations(c1) ==
    <<Depot("depot_1", c1, 8, {"electrical"}),
      Depot("depot_2", MaxCapacity, 12, {}),
      Parking("parking_1", MaxCapacity)>>

Day1Route == Route("route_day1_1", 1, "day", "depot_1", "depot_2", 1)

Day2Route == Route("route_day2_1", 2, "day", "depot_2", "depot_1", 1)

\* two vehicles, one day, one route: the capacity of depot_1 and the initial
\* location of the second vehicle vary
CapacityInstances ==
    {[vehicles |-> <<Vehicle("v_1", "depot_1", 0, <<>>),
                     Vehicle("v_2", loc2, 0, <<>>)>>,
      locations |-> FleetLocations(c1),
      maintenance_types |-> types,
      routes |-> <<Day1Route>>] :
        c1 \in 1..MaxCapacity,
        loc2 \in {"depot_1", "depot_2"},
        types \in {<<>>, <<Corrective("corrective_1", 6, None)>>}}

\* two vehicles, one day, one route: the pending corrective tasks and the
\* initial km of the first vehicle vary; with an empty catalogue a pending
\* task names a type that does not exist
CorrectiveInstances ==
    {[vehicles |-> <<Vehicle("v_1", "depot_1", k1, tasks),
                     Vehicle("v_2", "depot_2", 0, <<>>)>>,
      locations |-> FleetLocations(MaxCapacity),
      maintenance_types |-> types,
      routes |-> <<Day1Route>>] :
        k1 \in 0..MaxInitialKm,
        tasks \in TaskLists,
        types \in {<<>>, <<Corrective("corrective_1", 6, None)>>}}

\* one vehicle, two days, a route on each day; a corrective type of two
\* shifts and a preventive type that only depot_1 can perform
HorizonInstances ==
    {[vehicles |-> <<Vehicle("v_1", "depot_1", 0, tasks)>>,
      locations |-> <<Depot("depot_1", 1, 8, {"electrical"}),
                      Depot("depot_2", 1, 8, {}),
                      Parking("parking_1", 1)>>,
      maintenance_types |-> types,
      routes |-> <<Day1Route, Day2Route>>] :
        tasks \in {<<>>, <<Task("corrective_1", MaxRemainingKm)>>},
        types \in {<<>>,
                   <<Corrective("corrective_1", 16, None)>>,
                   <<Corrective("corrective_1", 16, None),
                     Preventive("preventive_1", 8, "electrical", 1, 2)>>}}

\* a vehicle with the pending_preventive_tasks the generator attaches to it
\* (the optimizer never reads them)
WithPreventiveTasks(veh, tasks) ==
    [f \in DOMAIN veh \cup {"pending_preventive_tasks"} |->
        IF f = "pending_preventive_tasks" THEN tasks ELSE veh[f]]

\* one vehicle at depot_1 with a pending preventive task, one day, one route
\* depot_1 -> depot_2; the preventive type needs a specialization that only
\* depot_2 declares ("electrical") or that no depot declares ("hydraulic")
SpecializationInstances ==
    {[vehicles |-> <<WithPreventiveTasks(Vehicle("v_1", "depot_1", k1, <<>>),
                                         <<Task("preventive_1", 1)>>)>>,
      locations |-> <<Depot("depot_1", 1, 8, {}),
                      Depot("depot_2", 1, 8, {"electrical"}),
                      Parking("parking_1", 1)>>,
      maintenance_types |-> <<Preventive("preventive_1", 8, specialization, 1, 1)>>,
      routes |-> <<Day1Route>>] :
        k1 \in 0..MaxInitialKm,
        specialization \in {"electrical", "hydraulic"}}

\* one vehicle at depot_1 with a pending corrective task of remaining_km 10
\* whose type only depot_2 can perform; the only route reaches depot_2 after
\* 11 km
UnreachableDepotInstances ==
    {[vehicles |-> <<Vehicle("v_1", "depot_1", k1, <<Task("corrective_1", 10)>>)>>,
      locations |-> <<Depot("depot_1", 1, 8, {}),
                      Depot("depot_2", 1, 8, {"electrical"}),
                      Parking("parking_1", 1)>>,
      maintenance_types |-> <<Corrective("corrective_1", 6, "electrical")>>,
      routes |-> <<Route("route_day1_1", 1, "day", "depot_1", "depot_2", 11)>>] :
        k1 \in 1..MaxInitialKm}

\* one depot with 80 manhours per shift and three preventive types of 80
\* manhours each; one vehicle that a route of day 1 brings from the parking
\* to the depot
SaturationInstances ==
    {[vehicles |-> <<Vehicle("v_1", "parking_1", 0, <<>>)>>,
      locations |-> <<Depot("depot_1", capacity, 80, {}), Parking("parking_1", 1)>>,
      maintenance_types |-> <<Preventive("preventive_1", 80, None, 1, 1),
                              Preventive("preventive_2", 80, None, 1, 1),
                              Preventive("preventive_3", 80, None, 1, 1)>>,
      routes |-> <<Route("route_day1_1", 1, "day", "parking_1", "depot_1", 1)>>] :
        capacity \in 1..MaxCapacity}

\* scenario S2: no routes; one vehicle with initial_km 1000 and a pending
\* corrective task (corrective_1, remaining_km 50)
RouteFreeInstances ==
    {[vehicles |-> <<Vehicle("v_1", "depot_1", 1000, <<Task("corrective_1", 50)>>)>>,
      locations |-> FleetLocations(capacity),
      maintenance_types |-> <<Corrective("corrective_1", 6, None)>>,
      routes |-> <<>>] :
        capacity \in 1..MaxCapacity}

\* two vehicles, one day, two routes in the same shift that leave from the
\* same depot; the end of the second route varies
ParallelRouteInstances ==
    {[vehicles |-> <<Vehicle("v_1", "depot_1", 0, <<>>),
                     Vehicle("v_2", "depot_1", 0, <<>>)>>,
      locations |-> FleetLocations(MaxCapacity),
      maintenance_types |-> <<>>,
      routes |-> <<Day1Route,
                   Route("route_day1_2", 1, "day", "depot_1", end2, 1)>>] :
        end2 \in {"depot_2", "parking_1"}}

\* one vehicle at depot_1 with a pending corrective task whose type needs 12
\* manhours (the generator draws manhours from 2..24); two days, a route on
\* each day
OddManhourInstances ==
    {[vehicles |-> <<Vehicle("v_1", "depot_1", k1, <<Task("corrective_1", MaxRemainingKm)>>)>>,
      locations |-> <<Depot("depot_1", 1, 12, {}),
                      Depot("depot_2", 1, 12, {}),
                      Parking("parking_1", 1)>>,
      maintenance_types |-> <<Corrective("corrective_1", 12, None)>>,
      routes |-> <<Day1Route, Day2Route>>] :
        k1 \in 0..MaxInitialKm}

\* one vehicle whose pending_corrective_tasks names a preventive type (the
\* validation only asks for the id to be in the catalogue); one day, one
\* route of 1 km.  An instance of the type can be performed at its
\* optimal_km, so the minimum of the objective is 0 here too.
ForcedPreventiveInstances ==
    {[vehicles |-> <<Vehicle("v_1", "depot_1", k1, <<Task("preventive_1", MaxRemainingKm)>>)>>,
      locations |-> <<Depot("depot_1", 1, 8, {}),
                      Depot("depot_2", 1, 8, {}),
                      Parking("parking_1", 1)>>,
      maintenance_types |-> <<Preventive("preventive_1", 8, None, 1, 2)>>,
      routes |-> <<Day1Route>>] :
        k1 \in 0..MaxInitialKm}

Instances ==
    CapacityInstances \cup CorrectiveInstances \cup HorizonInstances
        \cup ParallelRouteInstances \cup SpecializationInstances
        \cup UnreachableDepotInstances \cup SaturationInstances
        \cup RouteFreeInstances \cup OddManhourInstances
        \cup ForcedPreventiveInstances

InitAt(instances, position) ==
    /\ data \in instances
    /\ pc = position
    /\ cur_shift = 0
    /\ cur_vehicle = 1
    /\ assign_vr = {}
    /\ loc_start_vs = [v \in VehicleIds(data) |-> EmptyFn]
    /\ km_at_shift_start = [v \in VehicleIds(data) |-> EmptyFn]
    /\ maint_performed = {}
    /\ maint_assigned_depot = EmptyFn
    /\ km_at_maint_start = EmptyFn
    /\ maint_active_s = {}
    /\ deviation = EmptyFn
    /\ results = NoResults
    /\ results_file = NoFile
    /\ request = NoRequest
    /\ responses = <<>>

\* a caller holds an instance, generated or hand-written
InitWith(instances) == InitAt(instances, "input")

Init == InitWith(Instances)


(***************************************************************************)
(* The web application (webapp/app.py).  POST /run_optimizer generates an  *)
(* instance and solves it, or answers from output/schedule_results.json;   *)
(* requests are handled one at a time.  wall_time is not modelled.         *)
(***************************************************************************)
\* 178-182, 208-209: (day - 1) * 2 + (0 if the shift is "day" else 1)
FrontendShiftIndex(day, shift) == (day - 1) * 2 + (IF shift = "day" THEN 0 ELSE 1)

\* 174-193: the routes of one vehicle, null entries skipped
FrontendRoutes(vehicle_data) ==
    LET route_assignments == vehicle_data.route_assignments
        kept == {key \in DOMAIN route_assignments : route_assignments[key] # NoRoute}
    IN  [key \in kept |->
            [route_id |-> route_assignments[key].route_id,
             start_location |-> route_assignments[key].start_location,
             end_location |-> route_assignments[key].end_location,
             km |-> route_assignments[key].distance_km,
             shift |-> FrontendShiftIndex(key[1], key[2])]]

\* 195-220: the maintenance activities of one vehicle (the key
\* f"{maintenance_id}_activity_{i}" only numbers the entries)
FrontendMaintenance(vehicle_data) ==
    {[maintenance_id |-> maintenance.maintenance_id,
      maintenance_type |-> maintenance.maintenance_type,
      start_shift |-> FrontendShiftIndex(maintenance.start_day, maintenance.start_shift),
      end_shift |-> FrontendShiftIndex(maintenance.end_day, maintenance.end_shift),
      depot |-> maintenance.depot,
      km |-> maintenance.km_at_start]
     : maintenance \in vehicle_data.maintenance_activities}

\* 163-220: vehicles_data, read from the "vehicles" key of the dict passed in
FrontendVehicles(r) ==
    IF "vehicles" \in DOMAIN r
    THEN [vehicle_id \in DOMAIN r.vehicles |->
             [routes |-> FrontendRoutes(r.vehicles[vehicle_id]),
              maintenance |-> FrontendMaintenance(r.vehicles[vehicle_id]),
              initial_km |-> r.vehicles[vehicle_id].initial_state.km]]
    ELSE EmptyFn

\* 139-232: format_results_for_frontend; status and objective_value are read
\* from the "optimization_info" key of the dict passed in and default to
\* 'OPTIMAL' and 0 when the dict has no such key
FormatResultsForFrontend(r) ==
    LET vehicles_data == FrontendVehicles(r)
    IN  [status |-> IF "optimization_info" \in DOMAIN r
                    THEN r.optimization_info.status ELSE "OPTIMAL",
         objective_value |-> IF "optimization_info" \in DOMAIN r
                             THEN r.optimization_info.objective_value ELSE 0,
         vehicles |-> vehicles_data,
         total_routes |->
             SumSet(DOMAIN vehicles_data,
                    [v \in DOMAIN vehicles_data |->
                        Cardinality(DOMAIN vehicles_data[v].routes)]),
         total_maintenance |->
             SumSet(DOMAIN vehicles_data,
                    [v \in DOMAIN vehicles_data |->
                        Cardinality(vehicles_data[v].maintenance)])]

\* 128-137: the handler catches every exception
ErrorBody == [status |-> "error"]

\* the instances generate_dummy_data hands to the handler, all of which pass
\* _validate_data: one vehicle with a pending corrective task, one day, one
\* route; and the same without routes (num_routes_per_day = 0)
WebInstances ==
    {[vehicles |-> <<Vehicle("v_1", "depot_1", 0, <<Task("corrective_1", MaxRemainingKm)>>)>>,
      locations |-> <<Depot("depot_1", 1, 8, {}), Depot("depot_2", 1, 8, {})>>,
      maintenance_types |-> <<Corrective("corrective_1", 6, None)>>,
      routes |-> routes] :
        routes \in {<<Day1Route>>, <<>>}}

\* 48-100: the handler up to the solve.  With use_cached, no regenerate and
\* a results file, it answers from the file; otherwise it generates the
\* instance (generate_dummy_data validates it) and goes on to solve it.
RunOptimizer(regenerate, use_cached) ==
    /\ pc = "idle"
    /\ Len(responses) < MaxRequests
    /\ IF ~regenerate /\ use_cached /\ results_file # NoFile
       THEN /\ results' = JsonLoad(results_file)
            /\ responses' = Append(responses,
                   [regenerate |-> regenerate, use_cached |-> use_cached,
                    ran_solve |-> FALSE, code |-> 200,
                    body |-> FormatResultsForFrontend(results')])
            /\ UNCHANGED <<data, pc, request>>
       ELSE /\ data' \in WebInstances
            /\ pc' = IF ValidateData(data') THEN "generated" ELSE "raised"
            /\ request' = [regenerate |-> regenerate, use_cached |-> use_cached,
                           active |-> TRUE]
            /\ results' = NoResults
            /\ UNCHANGED responses
    /\ UNCHANGED <<cur_shift, cur_vehicle, solver_vars, results_file>>

\* 93-96, 122-137: after the solve.  In the regenerate branch the dict the
\* solve returned is dumped to the results file; the response is built from
\* that dict; an exception of the solve becomes a 500 response.
RunOptimizerResponds ==
    /\ request.active
    /\ pc \in {"returned", "raised"}
    /\ pc' = "idle"
    /\ request' = NoRequest
    /\ results_file' = IF pc = "returned" /\ request.regenerate
                        THEN JsonDump(results) ELSE results_file
    /\ responses' = Append(responses,
           [regenerate |-> request.regenerate, use_cached |-> request.use_cached,
            ran_solve |-> TRUE,
            code |-> IF pc = "returned" THEN 200 ELSE 500,
            body |-> IF pc = "returned"
                     THEN FormatResultsForFrontend(results) ELSE ErrorBody])
    /\ cur_shift' = 0
    /\ cur_vehicle' = 1
    /\ assign_vr' = {}
    /\ loc_start_vs' = [v \in VehicleIds(data) |-> EmptyFn]
    /\ km_at_shift_start' = [v \in VehicleIds(data) |-> EmptyFn]
    /\ maint_performed' = {}
    /\ maint_assigned_depot' = EmptyFn
    /\ km_at_maint_start' = EmptyFn
    /\ maint_active_s' = {}
    /\ deviation' = EmptyFn
    /\ UNCHANGED <<data, results>>

\* the server is up, no request has been made and there is no results file
WebInit == InitAt(WebInstances, "idle")

WebNext ==
    \/ \E regenerate \in BOOLEAN, use_cached \in BOOLEAN :
           RunOptimizer(regenerate, use_cached)
    \/ SolveRailOptimization
    \/ SearchStep
    \/ SolverReturns
    \/ SolverTimeout
    \/ RunOptimizerResponds

WebSpec == WebInit /\ [][WebNext]_vars

Spec == Init /\ [][Next]_vars


(***************************************************************************)
(* Properties of the returned schedule.                                    *)
(***************************************************************************)
ScheduleReturned == pc = "returned" /\ results.status \in {"OPTIMAL", "FEASIBLE"}

Schedule == results.schedule_results

LastShift == NumShifts(data) - 1

\* the shifts of the window [start, start + dur) of an instance, within the horizon
Window(m) ==
    {s \in RealShiftIndices(data) :
        m.start_idx <= s /\ s < m.start_idx + InstanceDuration(data, m)}

RoutesOf(v, s) == {r \in routes_by_day_shift(data, s) : <<v, r>> \in assign_vr}

RECURSIVE SumDistance(_)
SumDistance(rs) ==
    IF rs = {} THEN 0
    ELSE LET r == CHOOSE x \in rs : TRUE
         IN  RouteById(data, r).distance_km + SumDistance(rs \ {r})

RECURSIVE SumDraw(_)
SumDraw(ms) ==
    IF ms = {} THEN 0
    ELSE LET m == CHOOSE x \in ms : TRUE
         IN  manhours_per_shift(data, m) + SumDraw(ms \ {m})

\* C1: in every schedule returned with status OPTIMAL or FEASIBLE every route
\* is assigned to exactly one vehicle: exactly one assign literal is 1 and the
\* route appears in exactly one vehicle's route_assignments.
C1_RouteCoverage ==
    ScheduleReturned =>
        \A i \in DOMAIN data.routes :
            /\ Cardinality({v \in VehicleIds(data) :
                    <<v, data.routes[i].id>> \in assign_vr}) = 1
            /\ Cardinality({v \in VehicleIds(data) :
                    \E key \in DOMAIN Schedule.vehicles[v].route_assignments :
                        Schedule.vehicles[v].route_assignments[key].route_id
                            = data.routes[i].id}) = 1

\* a returned schedule of a two-vehicle fleet in which the second vehicle runs the route
C1_Witness ==
    /\ ScheduleReturned
    /\ Len(data.vehicles) = 2
    /\ <<"v_2", "route_day1_1">> \in assign_vr

\* C2: for every vehicle of every returned schedule the location at the start
\* of (1, day), reported as states['1_day'].location, is the initial location.
C2_FirstShiftLocationIsInitial ==
    (ScheduleReturned /\ ValidateData(data)) =>
        \A v \in VehicleIds(data) :
            /\ loc_start_vs[v][1]
                   = location_id_to_index(data, VehicleById(data, v).initial_location)
            /\ Schedule.vehicles[v].states[<<1, "day">>].location
                   = VehicleById(data, v).initial_location

\* C3: for every vehicle of every returned schedule the km at the start of
\* (1, day) equal the initial km, so km[v,1] >= km[v,0].
C3_FirstShiftKmIsInitial ==
    (ScheduleReturned /\ ValidateData(data)) =>
        \A v \in VehicleIds(data) :
            /\ km_at_shift_start[v][1] = VehicleById(data, v).initial_km
            /\ km_at_shift_start[v][1] >= km_at_shift_start[v][0]
            /\ Schedule.vehicles[v].states[<<1, "day">>].km
                   = VehicleById(data, v).initial_km

\* C4: in every returned schedule a vehicle that has no route and no
\* maintenance in a non-terminal shift sigma >= 1 is at the same location at
\* sigma + 1, also when the catalogue is not empty.
C4_IdleLocationContinuity ==
    (ScheduleReturned /\ ValidateData(data)) =>
        \A v \in VehicleIds(data) :
            \A s \in 1..(LastShift - 1) :
                (/\ RoutesOf(v, s) = {}
                 /\ \A m \in maint_performed : m.vehicle_id = v => s \notin Window(m)
                 /\ \A m \in all_maint_instances(data) :
                        m.vehicle_id = v => <<m, s>> \notin maint_active_s)
                    => loc_start_vs[v][s + 1] = loc_start_vs[v][s]

\* C5: in every returned schedule no vehicle has a route in a shift that lies
\* in the window [start, start + dur) of a maintenance instance performed on it.
C5_RouteMaintenanceExclusive ==
    (ScheduleReturned /\ ValidateData(data)) =>
        \A m \in maint_performed :
            \A s \in Window(m) : RoutesOf(m.vehicle_id, s) = {}

\* C6: in every returned schedule, for every performed corrective instance m
\* of vehicle v and type t and every pending corrective task (t, R) of v,
\* kms[m] <= initial_km(v) + R, also when v has several tasks of type t.
C6_CorrectiveWindows ==
    (ScheduleReturned /\ ValidateData(data)) =>
        \A m \in maint_performed :
            MaintTypeById(data, m.maint_id).type = "corrective" =>
                \A i \in DOMAIN VehicleById(data, m.vehicle_id).pending_corrective_tasks :
                    LET task == VehicleById(data, m.vehicle_id).pending_corrective_tasks[i]
                    IN  task.maintenance_type_id = m.maint_id
                            => km_at_maint_start[m]
                                   <= VehicleById(data, m.vehicle_id).initial_km
                                          + task.remaining_km

\* C7: for every validated instance and every returned schedule, each pending
\* corrective task (t, R) of each vehicle v is matched by at least one
\* performed maintenance instance of (v, t), which the schedule lists.
C7_CorrectiveCompletion ==
    (ScheduleReturned /\ ValidateData(data)) =>
        \A i \in DOMAIN data.vehicles :
            \A j \in DOMAIN data.vehicles[i].pending_corrective_tasks :
                /\ \E m \in maint_performed :
                    /\ m.vehicle_id = data.vehicles[i].id
                    /\ m.maint_id
                         = data.vehicles[i].pending_corrective_tasks[j].maintenance_type_id
                /\ \E a \in Schedule.vehicles[data.vehicles[i].id].maintenance_activities :
                    a.maintenance_id
                        = data.vehicles[i].pending_corrective_tasks[j].maintenance_type_id

\* a returned schedule of a validated instance with a pending corrective task
C7_Witness ==
    /\ ScheduleReturned
    /\ ValidateData(data)
    /\ \E i \in DOMAIN data.vehicles : data.vehicles[i].pending_corrective_tasks # <<>>

C9_Capacity ==
    ScheduleReturned =>
        \A i \in DOMAIN data.locations :
            \A s \in 0..LastShift :
                Cardinality({v \in VehicleIds(data) : loc_start_vs[v][s] = i - 1})
                    <= data.locations[i].capacity

\* a returned schedule in which a location of capacity 1 holds a vehicle while
\* the other vehicle is elsewhere
C9_Witness ==
    /\ ScheduleReturned
    /\ Len(data.vehicles) = 2
    /\ \E i \in DOMAIN data.locations :
        \E s \in 0..LastShift :
            /\ data.locations[i].capacity = 1
            /\ Cardinality({v \in VehicleIds(data) : loc_start_vs[v][s] = i - 1}) = 1

\* C10: in every returned schedule, for every vehicle and every non-terminal
\* shift sigma >= 1, km[v,sigma+1] - km[v,sigma] is the sum of the distances
\* of the routes of sigma assigned to v, hence km[v,sigma+1] >= km[v,sigma].
C10_KmAccumulation ==
    ScheduleReturned =>
        \A v \in VehicleIds(data) :
            \A s \in 1..(LastShift - 1) :
                /\ km_at_shift_start[v][s + 1] - km_at_shift_start[v][s]
                       = SumDistance(RoutesOf(v, s))
                /\ km_at_shift_start[v][s + 1] >= km_at_shift_start[v][s]

\* a returned schedule in which a vehicle ran a route and its km grew
C10_Witness ==
    /\ ScheduleReturned
    /\ \E v \in VehicleIds(data) :
        \E s \in 1..(LastShift - 1) :
            /\ RoutesOf(v, s) # {}
            /\ km_at_shift_start[v][s + 1] > km_at_shift_start[v][s]

\* C11: in every returned schedule, a route of shift sigma assigned to vehicle
\* v starts at loc[v, sigma] and, when sigma is not the last shift, ends at
\* loc[v, sigma + 1].
C11_RouteEndpoints ==
    ScheduleReturned =>
        \A v \in VehicleIds(data) :
            \A s \in RealShiftIndices(data) :
                \A r \in RoutesOf(v, s) :
                    /\ loc_start_vs[v][s]
                           = location_id_to_index(data, RouteById(data, r).start_location)
                    /\ s < LastShift =>
                           loc_start_vs[v][s + 1]
                               = location_id_to_index(data, RouteById(data, r).end_location)

\* a returned schedule in which a vehicle ran a route between two different
\* locations in a shift that is not the last one
C11_Witness ==
    /\ ScheduleReturned
    /\ \E v \in VehicleIds(data) :
        \E s \in 1..(LastShift - 1) :
            \E r \in RoutesOf(v, s) :
                /\ RouteById(data, r).start_location # RouteById(data, r).end_location
                /\ loc_start_vs[v][s + 1] # loc_start_vs[v][s]

\* C12: in every returned schedule no vehicle is assigned two routes of the
\* same (day, shift): the assign literals of a vehicle over the routes of one
\* shift sum to at most 1.
C12_RouteExclusivity ==
    ScheduleReturned =>
        \A v \in VehicleIds(data) :
            \A s \in RealShiftIndices(data) : Cardinality(RoutesOf(v, s)) <= 1

\* a returned schedule of an instance with two routes in one shift, run by
\* two different vehicles
C12_Witness ==
    /\ ScheduleReturned
    /\ \E s \in RealShiftIndices(data) :
        /\ Cardinality(routes_by_day_shift(data, s)) = 2
        /\ \A v \in VehicleIds(data) : Cardinality(RoutesOf(v, s)) = 1

\* the depots that declare the specialization of the type of instance m
DeclaringDepots(m) ==
    {i - 1 : i \in {j \in DOMAIN data.locations :
        /\ data.locations[j].type = "depot"
        /\ MaintTypeById(data, m.maint_id).specialization
               \in data.locations[j].specialized_maintenance}}

HasUnservedSpecialization ==
    \E i \in DOMAIN data.maintenance_types :
        /\ data.maintenance_types[i].specialization # None
        /\ ~\E j \in DOMAIN data.locations :
               /\ data.locations[j].type = "depot"
               /\ data.maintenance_types[i].specialization
                      \in data.locations[j].specialized_maintenance

\* C14: an instance with a specialized maintenance type whose specialization
\* no depot declares never yields a schedule with status OPTIMAL or FEASIBLE.
C14_UnservedSpecializationRejected ==
    HasUnservedSpecialization => ~ScheduleReturned

\* C15: in every returned schedule every performed preventive instance m of
\* type t has kms[m] <= max_km(t), where kms[m] is the km of its vehicle at
\* the start of the shift in which m starts; the schedule reports that value.
C15_PreventiveWindows ==
    ScheduleReturned =>
        \A m \in maint_performed :
            MaintTypeById(data, m.maint_id).type = "preventive" =>
                /\ km_at_maint_start[m] = km_at_shift_start[m.vehicle_id][m.start_idx]
                /\ km_at_maint_start[m] <= MaintTypeById(data, m.maint_id).max_km
                /\ \E a \in Schedule.vehicles[m.vehicle_id].maintenance_activities :
                    /\ a.maintenance_id = m.maint_id
                    /\ a.km_at_start = km_at_maint_start[m]

\* a returned schedule with a preventive instance performed exactly at max_km
\* in an instance whose km variables can exceed max_km
C15_Witness ==
    /\ ScheduleReturned
    /\ \E m \in maint_performed :
        /\ MaintTypeById(data, m.maint_id).type = "preventive"
        /\ km_at_maint_start[m] = MaintTypeById(data, m.maint_id).max_km
        /\ max_possible_km(data) > MaintTypeById(data, m.maint_id).max_km

Abs(x) == IF x >= 0 THEN x ELSE -x

PerformedPreventive ==
    {m \in maint_performed : MaintTypeById(data, m.maint_id).type = "preventive"}

\* sum over the performed preventive instances of |kms[m] - optimal_km(type(m))|
DeviationSum ==
    SumSet(PerformedPreventive,
           [m \in PerformedPreventive |->
               Abs(km_at_maint_start[m] - MaintTypeById(data, m.maint_id).optimal_km)])

TaskDepots(task) ==
    LET specialization == MaintTypeById(data, task.maintenance_type_id).specialization
    IN  {data.locations[j].id : j \in {i \in DOMAIN data.locations :
            /\ data.locations[i].type = "depot"
            /\ \/ specialization = None
               \/ specialization \in data.locations[i].specialized_maintenance}}

\* scenario S6: a vehicle that is not at a capable depot has a pending
\* corrective task with remaining_km = 10, and every route that ends at a
\* capable depot is longer than 10 km
S6Scenario ==
    /\ ValidateData(data)
    /\ \E i \in DOMAIN data.vehicles :
        \E j \in DOMAIN data.vehicles[i].pending_corrective_tasks :
            LET task == data.vehicles[i].pending_corrective_tasks[j]
            IN  /\ task.remaining_km = 10
                /\ data.vehicles[i].initial_location \notin TaskDepots(task)
                /\ \A r \in DOMAIN data.routes :
                       data.routes[r].end_location \in TaskDepots(task)
                           => data.routes[r].distance_km > 10

\* C17: for an instance of scenario S6 the solve emits no schedule (its
\* status is INFEASIBLE, never OPTIMAL or FEASIBLE).
C17_S6NoSchedule ==
    S6Scenario => ~ScheduleReturned

\* scenario S3: a preventive type needs a specialization that depot_2 alone
\* declares, a vehicle that starts at depot_1 has a task of that type
\* pending, and a route of day 1 ends at depot_2
S3Scenario ==
    /\ ValidateData(data)
    /\ \E t \in DOMAIN data.maintenance_types :
        /\ data.maintenance_types[t].type = "preventive"
        /\ \A j \in DOMAIN data.locations :
               (/\ data.locations[j].type = "depot"
                /\ data.maintenance_types[t].specialization
                       \in data.locations[j].specialized_maintenance)
                   <=> data.locations[j].id = "depot_2"
        /\ \E i \in DOMAIN data.vehicles :
            /\ data.vehicles[i].initial_location = "depot_1"
            /\ "pending_preventive_tasks" \in DOMAIN data.vehicles[i]
            /\ \E j \in DOMAIN data.vehicles[i].pending_preventive_tasks :
                   data.vehicles[i].pending_preventive_tasks[j].maintenance_type_id
                       = data.maintenance_types[t].id
    /\ \E r \in DOMAIN data.routes :
        data.routes[r].day = 1 /\ data.routes[r].end_location = "depot_2"

\* C18: for an instance of scenario S3 every returned schedule contains a
\* performed preventive instance assigned to depot_2 that starts at a shift
\* index >= 2.
C18_S3PreventiveAtDepot2 ==
    (S3Scenario /\ ScheduleReturned) =>
        \E m \in maint_performed :
            /\ MaintTypeById(data, m.maint_id).type = "preventive"
            /\ index_to_location_id(data, maint_assigned_depot[m]) = "depot_2"
            /\ m.start_idx >= 2

\* C19: when three maintenance activities of 80 required manhours each are
\* performed at one depot whose manhours_per_shift is 80, no shift is shared
\* by two of them (no shift in which two of them are active).
C19_S5DistinctShifts ==
    ScheduleReturned =>
        \A i \in DOMAIN data.locations :
            (data.locations[i].type = "depot" /\ data.locations[i].manhours_per_shift = 80) =>
                LET here == {m \in maint_performed :
                                /\ MaintTypeById(data, m.maint_id).manhours = 80
                                /\ maint_assigned_depot[m] = i - 1}
                IN  Cardinality(here) = 3 =>
                        \A m1 \in here, m2 \in here :
                            m1 # m2 =>
                                \A s \in RealShiftIndices(data) :
                                    ~(<<m1, s>> \in maint_active_s /\ <<m2, s>> \in maint_active_s)

\* scenario S2: an instance without routes whose vehicle has initial_km 1000
\* and a pending corrective task (corrective_1, remaining_km 50)
S2Scenario ==
    /\ ValidateData(data)
    /\ data.routes = <<>>
    /\ Len(data.vehicles) = 1
    /\ data.vehicles[1].initial_km = 1000
    /\ data.vehicles[1].pending_corrective_tasks = <<Task("corrective_1", 50)>>

\* C20: for an instance of scenario S2 the solve, once it has ended, has
\* returned a schedule in which exactly one instance of corrective_1 is
\* performed on the vehicle, with kms <= 1050.
C20_S2ForcedCorrective ==
    (S2Scenario /\ pc \in {"returned", "raised"}) =>
        /\ ScheduleReturned
        /\ Cardinality({m \in maint_performed : m.maint_id = "corrective_1"}) = 1
        /\ \A m \in maint_performed : km_at_maint_start[m] <= 1050

CeilDuration(h) ==
    Min2(Max2(1, (h + HoursPerShift - 1) \div HoursPerShift), max_maint_duration)

\* C22: in every returned schedule, every performed instance m of a type of
\* h manhours has the duration clamp(ceil(h/8), 1, 5): its active literals
\* are keyed by the shifts of that window, its per-shift draw is
\* floor(h / duration) >= 1, and its projected end is start + duration
\* (capped at the last shift).
C22_DurationIsCeil ==
    ScheduleReturned =>
        \A m \in maint_performed :
            LET h == MaintTypeById(data, m.maint_id).manhours
                dur == CeilDuration(h)
                end_idx == Min2(m.start_idx + dur, LastShift)
            IN  /\ {s \in 0..LastShift : ActiveKey(data, m, s)}
                       = m.start_idx..Min2(m.start_idx + dur - 1, LastShift)
                /\ manhours_per_shift(data, m) = h \div dur
                /\ manhours_per_shift(data, m) >= 1
                /\ \E maint \in Schedule.vehicles[m.vehicle_id].maintenance_activities :
                       /\ maint.maintenance_id = m.maint_id
                       /\ maint.start_day = all_shifts_with_initial(data)[m.start_idx].day
                       /\ maint.start_shift = all_shifts_with_initial(data)[m.start_idx].shift
                       /\ maint.end_day = all_shifts_with_initial(data)[end_idx].day
                       /\ maint.end_shift = all_shifts_with_initial(data)[end_idx].shift

\* C24: a FEASIBLE schedule reports its objective value just as an OPTIMAL
\* one does: optimization_info.objective_value is present, is not None and
\* is the value of the objective of the returned assignment.
C24_FeasibleCarriesObjective ==
    (ValidateData(data) /\ ScheduleReturned) =>
        /\ "objective_value" \in DOMAIN Schedule.optimization_info
        /\ Schedule.optimization_info.objective_value # NoObjective
        /\ Schedule.optimization_info.objective_value = ObjectiveValue

DepotIds == {data.locations[i].id : i \in {j \in DOMAIN data.locations :
                                              data.locations[j].type = "depot"}}

PendingTasks(veh) ==
    {veh.pending_corrective_tasks[j] : j \in DOMAIN veh.pending_corrective_tasks}
        \cup (IF "pending_preventive_tasks" \in DOMAIN veh
               THEN {veh.pending_preventive_tasks[j] :
                        j \in DOMAIN veh.pending_preventive_tasks}
               ELSE {})

\* C25: an instance that validation lets through has every route endpoint
\* and every initial_location among the depot ids, and every pending task of
\* either list naming a maintenance type of the catalogue.
C25_ValidationRejectsBadReferences ==
    pc = "generated" =>
        /\ \A i \in DOMAIN data.routes :
               /\ data.routes[i].start_location \in DepotIds
               /\ data.routes[i].end_location \in DepotIds
        /\ \A i \in DOMAIN data.vehicles :
               /\ data.vehicles[i].initial_location \in DepotIds
               /\ \A task \in PendingTasks(data.vehicles[i]) :
                      task.maintenance_type_id \in MaintenanceTypeIds(data)

\* C26: in every returned assignment, for every maintenance instance m and
\* every shift s of its window inside the horizon, the literal
\* maint_active_s[m, s] is 1 if and only if maint_performed[m] is 1.
C26_ActiveIffPerformed ==
    (ValidateData(data) /\ ScheduleReturned) =>
        \A m \in all_maint_instances(data) :
            \A s \in 0..LastShift :
                ActiveKey(data, m, s) =>
                    (<<m, s>> \in maint_active_s <=> m \in maint_performed)

\* C27: in every returned assignment, a vehicle with a performed instance m
\* is at the assigned depot of m at the start shift of m and at every later
\* shift index up to and including start + duration, within the horizon.
C27_StationaryDuringMaintenance ==
    (ValidateData(data) /\ ScheduleReturned) =>
        \A m \in maint_performed :
            \A s \in m.start_idx..Min2(m.start_idx + InstanceDuration(data, m), LastShift) :
                loc_start_vs[m.vehicle_id][s] = maint_assigned_depot[m]

\* C28: in the states of every returned schedule, is_under_maintenance is
\* true exactly at the shifts start..start+duration-1 of the performed
\* instances of the vehicle (the shift start+duration is not under
\* maintenance), and is_idle is true exactly at the shifts with no route
\* that lie in no such window.
C28_StateFlags ==
    (ValidateData(data) /\ ScheduleReturned) =>
        \A v \in VehicleIds(data) :
            \A idx \in RealShiftIndices(data) :
                LET state == Schedule.vehicles[v].states[ShiftKey(data, idx)]
                    in_window == \E m \in maint_performed :
                                    m.vehicle_id = v /\ idx \in Window(m)
                IN  /\ state.is_under_maintenance <=> in_window
                    /\ state.is_idle <=> (RoutesOf(v, idx) = {} /\ ~in_window)

IsPreventive(m) == MaintTypeById(data, m.maint_id).type = "preventive"

\* some pending corrective task names a type of the catalogue that is preventive
PreventiveNamedAsCorrective ==
    \E i \in DOMAIN data.vehicles :
        \E j \in DOMAIN data.vehicles[i].pending_corrective_tasks :
            \E t \in DOMAIN data.maintenance_types :
                /\ data.maintenance_types[t].id =
                       data.vehicles[i].pending_corrective_tasks[j].maintenance_type_id
                /\ data.maintenance_types[t].type = "preventive"

IsSearchStep ==
    /\ pc = "solving"
    /\ pc' = "solving"
    /\ <<cur_shift, cur_vehicle>>' # <<cur_shift, cur_vehicle>>

\* The step just taken by the search stays allowed when every literal of a
\* preventive instance (maint_performed, maint_active_s), decided earlier or
\* in this step, is 0 instead: every constraint that reads those literals
\* holds for the remaining ones.  The constraints that read no such literal
\* hold because the step was taken.
ClearedStepAllowed ==
    LET veh == data.vehicles[cur_vehicle]
        v == veh.id
        s == cur_shift
        l == loc_start_vs'[v][s]
        k == km_at_shift_start'[v][s]
        rs == {r \in routes_by_day_shift(data, s) : <<v, r>> \in assign_vr'}
        kept_performed == {m \in maint_performed' : ~IsPreventive(m)}
        kept_active_before == {p \in maint_active_s : ~IsPreventive(p[1])}
        kept_active == {p \in maint_active_s' : ~IsPreventive(p[1])}
        ps == {m \in maint_performed' \ maint_performed : ~IsPreventive(m)}
        acts == {m \in InstancesKeyedAt(data, v, s) : <<m, s>> \in kept_active}
    IN  /\ PerformedAtAssignedDepot(data, ps, l)
        /\ PreventiveMaxKm(data, ps, k)
        /\ CorrectiveMaxKm(data, veh, ps, k)
        /\ RoutingToDepot(data, v, s, ps, l)
        /\ acts \subseteq kept_performed
        /\ RouteMaintenanceExclusive(data, s, rs, acts)
        /\ MaintenanceStationaryUnder(data, v, s, l, kept_active_before)
        /\ (cur_vehicle = Len(data.vehicles)) =>
               ManhourCapacity(data, s, kept_active, maint_assigned_depot')
        /\ (s = LastShift) => CorrectiveForced(data, veh, kept_performed)

LastResponse == responses[Len(responses)]

\* C23: the response of a POST /run_optimizer that ran a solve reports that
\* solve: its status, its objective value, and the per-vehicle routes and
\* maintenance of its schedule (one entry per vehicle of the instance).
C23_ResponseReportsSolve ==
    (/\ pc = "idle"
     /\ responses # <<>>
     /\ LastResponse.ran_solve
     /\ LastResponse.code = 200) =>
        /\ LastResponse.body.status = results.status
        /\ "schedule_results" \in DOMAIN results =>
               /\ LastResponse.body.objective_value =
                      results.schedule_results.optimization_info.objective_value
               /\ LastResponse.body.vehicles = FrontendVehicles(results.schedule_results)
               /\ DOMAIN LastResponse.body.vehicles = VehicleIds(data)

\* C30: when a request that ran a solve was answered with success and the
\* next request (use_cached true, regenerate false) is answered from
\* output/schedule_results.json, the two responses have the same status,
\* vehicles, total_routes and total_maintenance.
C30_CachedRepeatsSolve ==
    \A i \in 1..(Len(responses) - 1) :
        (/\ responses[i].ran_solve
         /\ responses[i].code = 200
         /\ responses[i + 1].use_cached
         /\ ~responses[i + 1].regenerate
         /\ ~responses[i + 1].ran_solve) =>
            /\ responses[i + 1].body.status = responses[i].body.status
            /\ responses[i + 1].body.vehicles = responses[i].body.vehicles
            /\ responses[i + 1].body.total_routes = responses[i].body.total_routes
            /\ responses[i + 1].body.total_maintenance = responses[i].body.total_maintenance

====
